---- MODULE Spec2Model ----
(***************************************************************************)
(* Model of the online-notes-saver authentication glue: the auth-state     *)
(* listeners of Login, AuthProvider and the withAuth route guard, the      *)
(* sign-in/out helpers, the server-side session-cookie check and the       *)
(* middleware.  The vendor SDK (auth state, popup flow, session verifier)  *)
(* is the environment.                                                     *)
(***************************************************************************)
EXTENDS Integers, Sequences, FiniteSets, TLC

\* ---------------------------------------------------------------- bounds
MaxEvents == 2       \* auth-state changes the vendor emits in one run
MaxMounts == 1       \* times one component is mounted in one run
MaxClicks == 2       \* helper invocations (button clicks) in one run
MaxServerCalls == 3  \* server-side calls in one run

\* ---------------------------------------------------------------- values
Users == {"alice", "bob"}
NoUser == "null"
UserOrNull == Users \cup {NoUser}

Components == {"Login", "AuthProvider", "withAuth"}
WithLoading == {"AuthProvider", "withAuth"}
Props == {"p1", "p2"}

VARIABLES
  currentUser,   \* the vendor's auth.currentUser
  emitted,       \* number of auth-state changes the vendor has emitted
  mounted,       \* [Components -> BOOLEAN]
  user,          \* useState user of each component
  loading,       \* useState loading of AuthProvider and withAuth
  subs,          \* live onAuthStateChanged listeners each component registered
  inbox,         \* notifications the vendor still has to deliver to a listener
  delivered,     \* notifications delivered to the current instance's listener
  created,       \* subscriptions each component created so far
  unsubscribed,  \* subscriptions each component unsubscribed so far
  pushes,        \* router.push targets, in call order
  calls,         \* invocations of the sign-in/out handlers
  cookie,        \* the "session" cookie of the cookie store
  expired,       \* session cookies the vendor no longer accepts
  minted,        \* session cookies minted so far
  posts,         \* documents of the "posts" collection
  authLog,       \* calls of getAuthenticatedUserUid, in order
  actionLog,     \* results of createPostAction, in order
  adminInScope,  \* whether `admin` resolves in data-actions.ts
  mwReq,         \* the request handed to the middleware
  mwResp         \* the middleware's response

clientVars == <<currentUser, emitted, mounted, user, loading, subs, inbox,
                delivered, created, unsubscribed, pushes>>
helperVars == <<calls>>
serverVars == <<cookie, expired, minted, posts, authLog, actionLog, adminInScope>>
mwVars == <<mwReq, mwResp>>
vars == <<clientVars, helperVars, serverVars, mwVars>>

\* ------------------------------------------------------ vendor: auth state
\* onAuthStateChanged hands a change to every registered listener; a listener
\* that was unsubscribed is no longer called.
Broadcast(box, u) ==
  [c \in Components |-> IF subs[c] > 0 THEN Append(box[c], u) ELSE box[c]]

\* The vendor's current user changes (login elsewhere, logout, token refresh).
VendorAuthChange(u) ==
  /\ emitted < MaxEvents
  /\ currentUser' = u
  /\ emitted' = emitted + 1
  /\ inbox' = Broadcast(inbox, u)
  /\ UNCHANGED <<mounted, user, loading, subs, delivered, created, unsubscribed,
                 pushes, helperVars, serverVars, mwVars>>

\* ------------------------------------------------------ component effects
\* useEffect body: onAuthStateChanged(auth, cb) registers one listener, which
\* the vendor first calls with the current user.
Subscribe(c) ==
  /\ subs' = [subs EXCEPT ![c] = @ + 1]
  /\ inbox' = [inbox EXCEPT ![c] = Append(@, currentUser)]
  /\ created' = [created EXCEPT ![c] = @ + 1]

\* Faulty variant: the cleanup does not unsubscribe.
CleanupLeak(c) ==
  /\ UNCHANGED <<subs, inbox, unsubscribed>>

\* useEffect cleanup: return () => unsubscribe()
Cleanup(c) ==
  /\ subs' = [subs EXCEPT ![c] = @ - 1]
  /\ inbox' = [inbox EXCEPT ![c] = IF subs[c] - 1 > 0 THEN @ ELSE <<>>]
  /\ unsubscribed' = [unsubscribed EXCEPT ![c] = @ + 1]

\* A component instance is mounted: useState initial values, then the effect.
Mount(c) ==
  /\ ~mounted[c]
  /\ created[c] < MaxMounts
  /\ mounted' = [mounted EXCEPT ![c] = TRUE]
  /\ user' = [user EXCEPT ![c] = NoUser]
  /\ loading' = IF c \in WithLoading THEN [loading EXCEPT ![c] = TRUE] ELSE loading
  /\ delivered' = [delivered EXCEPT ![c] = <<>>]
  /\ Subscribe(c)
  /\ UNCHANGED <<currentUser, emitted, unsubscribed, pushes,
                 helperVars, serverVars, mwVars>>

\* The component instance is torn down: the effect's cleanup runs.
Unmount(c) ==
  /\ mounted[c]
  /\ mounted' = [mounted EXCEPT ![c] = FALSE]
  /\ Cleanup(c)
  /\ UNCHANGED <<currentUser, emitted, user, loading, delivered, created, pushes,
                 helperVars, serverVars, mwVars>>

\* ------------------------------------------------------ listener callbacks
\* Each callback maps the component's state and the notified user to the new
\* state and the router.push calls it makes.
\* Faulty variant: a logout notification is ignored.
LoginCallbackKeep(st, u) ==
  [user |-> IF u = NoUser THEN st.user ELSE u, loading |-> st.loading, push |-> <<>>]

\* Login: (user) => { setUser(user); }
LoginCallback(st, u) ==
  [user |-> u, loading |-> st.loading, push |-> <<>>]

\* AuthProvider: (user) => { setUser(user); setLoading(false); }
AuthProviderCallback(st, u) ==
  [user |-> u, loading |-> FALSE, push |-> <<>>]

\* Faulty variant: no redirect when the user is absent.
WithAuthCallbackNoPush(st, u) ==
  IF u = NoUser
    THEN [user |-> st.user, loading |-> FALSE, push |-> <<>>]
    ELSE [user |-> u, loading |-> FALSE, push |-> <<>>]

\* withAuth: if (!user) router.push("/"); else setUser(user); setLoading(false);
WithAuthCallback(st, u) ==
  IF u = NoUser
    THEN [user |-> st.user, loading |-> FALSE, push |-> <<"/">>]
    ELSE [user |-> u, loading |-> FALSE, push |-> <<>>]

Callback(c, st, u) ==
  CASE c = "Login" -> LoginCallback(st, u)
    [] c = "AuthProvider" -> AuthProviderCallback(st, u)
    [] c = "withAuth" -> WithAuthCallback(st, u)

StateOf(c) ==
  [user |-> user[c], loading |-> IF c \in WithLoading THEN loading[c] ELSE FALSE]

\* The vendor calls the listener of component c with the oldest pending change.
Notify(c) ==
  /\ inbox[c] # <<>>
  /\ LET u == Head(inbox[c])
         r == Callback(c, StateOf(c), u)
     IN /\ user' = [user EXCEPT ![c] = r.user]
        /\ loading' = IF c \in WithLoading
                        THEN [loading EXCEPT ![c] = r.loading] ELSE loading
        /\ pushes' = pushes \o r.push
        /\ delivered' = [delivered EXCEPT ![c] = Append(@, u)]
  /\ inbox' = [inbox EXCEPT ![c] = Tail(@)]
  /\ UNCHANGED <<currentUser, emitted, mounted, subs, created, unsubscribed,
                 helperVars, serverVars, mwVars>>

\* ------------------------------------------------------ rendering
\* Faulty variant: the wrapped view is rendered while loading.
WrapperRenderFlicker(props, st) ==
  IF st.user = NoUser /\ ~st.loading
    THEN [view |-> "null", user |-> NoUser, props |-> props]
    ELSE [view |-> "WrappedComponent", user |-> st.user, props |-> props]

\* withAuth.Wrapper: Loading while loading, null without a user, else the
\* wrapped component with the props and the user.
WrapperRender(props, st) ==
  IF st.loading
    THEN [view |-> "Loading", user |-> NoUser, props |-> props]
    ELSE IF st.user = NoUser
      THEN [view |-> "null", user |-> NoUser, props |-> props]
      ELSE [view |-> "WrappedComponent", user |-> st.user, props |-> props]

\* Login: the sign-out button with a user, the sign-in button without.
LoginRender(st) ==
  IF st.user # NoUser THEN "SignOutButton" ELSE "SignInButton"

\* ------------------------------------------------------ sign-in/out handlers
AuthErrors == {"auth/invalid-api-key", "auth/popup-closed-by-user"}
SignOutErrors == {"auth/network-request-failed"}
FetchErrors == {"TypeError"}
Pending == "pending"

\* The user record of the vendor's UserCredential.
UserRecord(u) ==
  [uid |-> u, email |-> <<u, "email">>, displayName |-> <<u, "name">>,
   photoURL |-> <<u, "photo">>]

\* The JSON body handleSignIn posts to /api/syncUser.
SyncUserBody(u) ==
  [uid |-> UserRecord(u).uid, email |-> UserRecord(u).email,
   name |-> UserRecord(u).displayName, photoURL |-> UserRecord(u).photoURL]

\* A handler is entered and runs to its first await: one vendor call is issued.
StartCall(fn) ==
  [fn |-> fn, pc |-> "awaitVendor", settled |-> Pending, vendorCalls |-> 1,
   popupUser |-> NoUser, failures |-> <<>>, fetches |-> <<>>, logged |-> <<>>,
   alerts |-> <<>>, outcome |-> Pending]

\* Faulty variant: the catch block rethrows after logging.
signInWithGoogleRethrow(c) ==
  IF c.settled \in Users
    THEN [c EXCEPT !.pc = "done", !.settled = Pending, !.outcome = "resolved"]
    ELSE [c EXCEPT !.pc = "done", !.settled = Pending,
                   !.logged = Append(@, "Error signing in with Google"),
                   !.outcome = "rejected"]

\* signInWithGoogle after its await: try { await signInWithPopup } catch { log }
signInWithGoogleResume(c) ==
  IF c.settled \in Users
    THEN [c EXCEPT !.pc = "done", !.settled = Pending, !.outcome = "resolved"]
    ELSE [c EXCEPT !.pc = "done", !.settled = Pending,
                   !.logged = Append(@, "Error signing in with Google"),
                   !.outcome = "resolved"]

\* signOutFromGoogle after its await: try { await signOut } catch { log }
signOutFromGoogleResume(c) ==
  IF c.settled = "ok"
    THEN [c EXCEPT !.pc = "done", !.settled = Pending, !.outcome = "resolved"]
    ELSE [c EXCEPT !.pc = "done", !.settled = Pending,
                   !.logged = Append(@, "Error signing out from Google"),
                   !.outcome = "resolved"]

\* handleSignIn's catch block: the log and the alert depend on error.code.
handleSignInCatch(c, error) ==
  IF error = "auth/invalid-api-key"
    THEN [c EXCEPT !.pc = "done", !.settled = Pending,
                   !.logged = Append(@, "Firebase Auth Error: Invalid API Key."),
                   !.alerts = Append(@, "Authentication failed: Firebase API Key is misconfigured."),
                   !.outcome = "resolved"]
    ELSE [c EXCEPT !.pc = "done", !.settled = Pending,
                   !.logged = Append(@, "Error signing in with Google:"),
                   !.alerts = Append(@, "Authentication failed. Please try again."),
                   !.outcome = "resolved"]

\* handleSignIn after an await: the popup result leads to the fetch, the fetch
\* result to the end; either failure leads to the catch block.
handleSignInResume(c) ==
  IF c.pc = "awaitVendor"
    THEN IF c.settled \in Users
           THEN [c EXCEPT !.pc = "awaitFetch", !.settled = Pending,
                          !.fetches = Append(@, SyncUserBody(c.settled))]
           ELSE handleSignInCatch(c, c.settled)
    ELSE IF c.settled = "response"
           THEN [c EXCEPT !.pc = "done", !.settled = Pending, !.outcome = "resolved"]
           ELSE handleSignInCatch(c, c.settled)

Continue(c) ==
  CASE c.fn = "signInWithGoogle" -> signInWithGoogleResume(c)
    [] c.fn = "signOutFromGoogle" -> signOutFromGoogleResume(c)
    [] c.fn = "handleSignIn" -> handleSignInResume(c)

\* Login's sign-in button is clicked: onClick={signInWithGoogle}
ClickSignIn ==
  /\ mounted["Login"]
  /\ LoginRender(StateOf("Login")) = "SignInButton"
  /\ Len(calls) < MaxClicks
  /\ calls' = Append(calls, StartCall("signInWithGoogle"))
  /\ UNCHANGED <<clientVars, serverVars, mwVars>>

\* Login's sign-out button is clicked: onClick={signOutFromGoogle}
ClickSignOut ==
  /\ mounted["Login"]
  /\ LoginRender(StateOf("Login")) = "SignOutButton"
  /\ Len(calls) < MaxClicks
  /\ calls' = Append(calls, StartCall("signOutFromGoogle"))
  /\ UNCHANGED <<clientVars, serverVars, mwVars>>

\* GoogleLoginButton is clicked: onClick={handleSignIn}
ClickGoogleLoginButton ==
  /\ Len(calls) < MaxClicks
  /\ calls' = Append(calls, StartCall("handleSignIn"))
  /\ UNCHANGED <<clientVars, serverVars, mwVars>>

\* The vendor ends a popup flow: with a signed-in user, which changes the
\* auth state, or with an error.
PopupSettles(i, r) ==
  /\ calls[i].fn \in {"signInWithGoogle", "handleSignIn"}
  /\ calls[i].pc = "awaitVendor"
  /\ calls[i].settled = Pending
  /\ calls' = [calls EXCEPT ![i].settled = r,
                           ![i].popupUser = IF r \in Users THEN r ELSE @,
                           ![i].failures = IF r \in Users THEN @ ELSE Append(@, r)]
  /\ IF r \in Users
       THEN /\ emitted < MaxEvents
            /\ currentUser' = r
            /\ emitted' = emitted + 1
            /\ inbox' = Broadcast(inbox, r)
       ELSE UNCHANGED <<currentUser, emitted, inbox>>
  /\ UNCHANGED <<mounted, user, loading, subs, delivered, created, unsubscribed,
                 pushes, serverVars, mwVars>>

\* The vendor ends a signOut call: the auth state becomes "no user", or an error.
SignOutSettles(i, r) ==
  /\ calls[i].fn = "signOutFromGoogle"
  /\ calls[i].pc = "awaitVendor"
  /\ calls[i].settled = Pending
  /\ calls' = [calls EXCEPT ![i].settled = r,
                           ![i].failures = IF r = "ok" THEN @ ELSE Append(@, r)]
  /\ IF r = "ok"
       THEN /\ emitted < MaxEvents
            /\ currentUser' = NoUser
            /\ emitted' = emitted + 1
            /\ inbox' = Broadcast(inbox, NoUser)
       ELSE UNCHANGED <<currentUser, emitted, inbox>>
  /\ UNCHANGED <<mounted, user, loading, subs, delivered, created, unsubscribed,
                 pushes, serverVars, mwVars>>

\* The POST to /api/syncUser ends: with a response, or with a network error.
FetchSettles(i, r) ==
  /\ calls[i].pc = "awaitFetch"
  /\ calls[i].settled = Pending
  /\ calls' = [calls EXCEPT ![i].settled = r,
                           ![i].failures = IF r = "response" THEN @ ELSE Append(@, r)]
  /\ UNCHANGED <<clientVars, serverVars, mwVars>>

\* Faulty variant: the handler writes the signed-in user into Login's state.
ResumeSetsUser(i) ==
  /\ calls[i].settled # Pending
  /\ calls' = [calls EXCEPT ![i] = Continue(calls[i])]
  /\ user' = [user EXCEPT !["Login"] =
                IF calls[i].settled \in Users THEN calls[i].settled ELSE @]
  /\ UNCHANGED <<currentUser, emitted, mounted, loading, subs, inbox, delivered,
                 created, unsubscribed, pushes, serverVars, mwVars>>

\* A handler continues after its awaited promise settled.
Resume(i) ==
  /\ calls[i].settled # Pending
  /\ calls' = [calls EXCEPT ![i] = Continue(calls[i])]
  /\ UNCHANGED <<clientVars, serverVars, mwVars>>

\* ------------------------------------------------------ session cookie
\* The "session" cookie of the cookie store: absent, or present with a value.
\* A value is the empty string (<<>>) or a token <<uid, serial>>; serial 0 is
\* a token the vendor never minted.
NoCookie == [present |-> FALSE, value |-> <<>>]
CookieOf(v) == [present |-> TRUE, value |-> v]
ForeignValues == {<<>>} \cup {<<u, 0>> : u \in Users}
NoUid == "none"

\* adminAuth.verifySessionCookie(value, true): the decoded claims of a minted
\* cookie that is neither expired nor revoked; every other value is rejected.
Accepts(value) == value \in minted /\ value \notin expired
DecodedClaims(value) == [uid |-> value[1]]

\* Faulty variant: the cookie is decoded without being verified.
getAuthenticatedUserUidTrusting(ck) ==
  IF ~ck.present \/ ck.value = <<>>
    THEN [returned |-> FALSE, uid |-> NoUid, error |-> "Authentication required.",
          verified |-> FALSE, accepted |-> FALSE, store |-> ck]
    ELSE [returned |-> TRUE, uid |-> DecodedClaims(ck.value).uid, error |-> "",
          verified |-> FALSE, accepted |-> FALSE, store |-> ck]

\* Faulty variant: a rejected cookie is left in the store.
getAuthenticatedUserUidKeepCookie(ck) ==
  IF ~ck.present \/ ck.value = <<>>
    THEN [returned |-> FALSE, uid |-> NoUid, error |-> "Authentication required.",
          verified |-> FALSE, accepted |-> FALSE, store |-> ck]
    ELSE IF Accepts(ck.value)
      THEN [returned |-> TRUE, uid |-> DecodedClaims(ck.value).uid, error |-> "",
            verified |-> TRUE, accepted |-> TRUE, store |-> ck]
      ELSE [returned |-> FALSE, uid |-> NoUid,
            error |-> "Invalid or expired session. Please log in again.",
            verified |-> TRUE, accepted |-> FALSE, store |-> ck]

\* getAuthenticatedUserUid on cookie store ck: what it returns or throws,
\* whether it called the verifier, and the cookie store it leaves.
getAuthenticatedUserUid(ck) ==
  IF ~ck.present \/ ck.value = <<>>
    THEN [returned |-> FALSE, uid |-> NoUid, error |-> "Authentication required.",
          verified |-> FALSE, accepted |-> FALSE, store |-> ck]
    ELSE IF Accepts(ck.value)
      THEN [returned |-> TRUE, uid |-> DecodedClaims(ck.value).uid, error |-> "",
            verified |-> TRUE, accepted |-> TRUE, store |-> ck]
      ELSE [returned |-> FALSE, uid |-> NoUid,
            error |-> "Invalid or expired session. Please log in again.",
            verified |-> TRUE, accepted |-> FALSE, store |-> NoCookie]

\* One entry of authLog: a call of getAuthenticatedUserUid, or a cookie set.
AuthEntry(op, ck, r) ==
  [op |-> op, before |-> ck, valid |-> ck.present /\ Accepts(ck.value), returned |-> r.returned, uid |-> r.uid,
   error |-> r.error, verified |-> r.verified, accepted |-> r.accepted]
SetEntry(ck) ==
  [op |-> "set", before |-> ck, valid |-> FALSE, returned |-> FALSE, uid |-> NoUid,
   error |-> "", verified |-> FALSE, accepted |-> FALSE]

\* A server action other than createPostAction calls getAuthenticatedUserUid.
GetAuthenticatedUserUid ==
  /\ Len(authLog) < MaxServerCalls
  /\ LET r == getAuthenticatedUserUid(cookie)
     IN /\ cookie' = r.store
        /\ authLog' = Append(authLog, AuthEntry("check", cookie, r))
  /\ UNCHANGED <<expired, minted, posts, actionLog, adminInScope,
                 clientVars, helperVars, mwVars>>

\* setTokenCookieAction(idToken): a valid identity token of user u is exchanged
\* for a new session cookie, which is stored; an invalid one fails.
SetTokenCookieAction(idToken) ==
  /\ Len(authLog) < MaxServerCalls
  /\ IF idToken \in Users
       THEN LET value == <<idToken, Cardinality(minted) + 1>>
            IN /\ minted' = minted \cup {value}
               /\ cookie' = CookieOf(value)
               /\ authLog' = Append(authLog, SetEntry(cookie))
       ELSE UNCHANGED <<minted, cookie, authLog>>
  /\ UNCHANGED <<expired, posts, actionLog, adminInScope,
                 clientVars, helperVars, mwVars>>

\* The client presents a cookie value the server never issued.
ClientSetsCookie(v) ==
  /\ Len(authLog) < MaxServerCalls
  /\ cookie # CookieOf(v)
  /\ cookie' = CookieOf(v)
  /\ authLog' = Append(authLog, SetEntry(cookie))
  /\ UNCHANGED <<expired, minted, posts, actionLog, adminInScope,
                 clientVars, helperVars, mwVars>>

\* A minted session cookie expires or is revoked at the vendor.
SessionExpires(v) ==
  /\ v \in minted \ expired
  /\ expired' = expired \cup {v}
  /\ UNCHANGED <<cookie, minted, posts, authLog, actionLog, adminInScope,
                 clientVars, helperVars, mwVars>>

Titles == {"t1", "t2"}
Contents == {"c1"}

\* createPostAction(formData): the uid check, then the document write; every
\* failure (the check's, an unresolved `admin`, the write's) is caught.
createPostAction(ck, title, content, addOk) ==
  LET r == getAuthenticatedUserUid(ck)
  IN IF ~r.returned
       THEN [auth |-> r, wrote |-> <<>>, threw |-> FALSE, success |-> FALSE,
             message |-> r.error]
       ELSE IF ~adminInScope
         THEN [auth |-> r, wrote |-> <<>>, threw |-> FALSE, success |-> FALSE,
               message |-> "admin is not defined"]
         ELSE IF ~addOk
           THEN [auth |-> r, wrote |-> <<>>, threw |-> FALSE, success |-> FALSE,
                 message |-> "add failed"]
           ELSE [auth |-> r, wrote |-> <<[title |-> title, content |-> content,
                                          authorUid |-> r.uid]>>,
                 threw |-> FALSE, success |-> TRUE, message |-> ""]

\* The createPostAction server action runs on a submitted form.
CreatePostAction(title, content, addOk) ==
  /\ Len(authLog) < MaxServerCalls
  /\ LET a == createPostAction(cookie, title, content, addOk)
     IN /\ cookie' = a.auth.store
        /\ authLog' = Append(authLog, AuthEntry("createPost", cookie, a.auth))
        /\ posts' = posts \o a.wrote
        /\ actionLog' = Append(actionLog,
             [at |-> Len(authLog) + 1, addOk |-> addOk, success |-> a.success, threw |-> a.threw,
              message |-> a.message, wrote |-> a.wrote])
  /\ UNCHANGED <<expired, minted, adminInScope, clientVars, helperVars, mwVars>>

\* ------------------------------------------------------ middleware
\* Strings are sequences of characters, so that startsWith is computed.
Str_root == <<"/">>
Str_dashboard == <<"/", "d", "a", "s", "h", "b", "o", "a", "r", "d">>
Str_profile == <<"/", "p", "r", "o", "f", "i", "l", "e">>
Str_api == <<"a", "p", "i">>
Str_next_static == <<"_", "n", "e", "x", "t", "/", "s", "t", "a", "t", "i", "c">>
Str_next_image == <<"_", "n", "e", "x", "t", "/", "i", "m", "a", "g", "e">>
Str_favicon == <<"f", "a", "v", "i", "c", "o", "n">>
Str_ico == <<"i", "c", "o">>

\* const PROTECTED_ROUTES = ['/dashboard', '/profile']
PROTECTED_ROUTES == <<Str_dashboard, Str_profile>>

\* String.prototype.startsWith
startsWith(s, prefix) ==
  Len(prefix) <= Len(s) /\ SubSeq(s, 1, Len(prefix)) = prefix

\* Array.prototype.some over PROTECTED_ROUTES
IsProtected(pathname) ==
  \E k \in 1..Len(PROTECTED_ROUTES) : startsWith(pathname, PROTECTED_ROUTES[k])

\* config.matcher '/((?!api|_next/static|_next/image|favicon.ico).*)': the
\* middleware runs on a path unless what follows its first "/" starts with
\* one of the excluded words ("." of favicon.ico matches any character).
Matcher(pathname) ==
  /\ startsWith(pathname, Str_root)
  /\ LET rest == SubSeq(pathname, 2, Len(pathname))
     IN /\ ~startsWith(rest, Str_api)
        /\ ~startsWith(rest, Str_next_static)
        /\ ~startsWith(rest, Str_next_image)
        /\ ~(/\ Len(rest) >= 11
             /\ SubSeq(rest, 1, 7) = Str_favicon
             /\ SubSeq(rest, 9, 11) = Str_ico)

Redirect(pathname) == [kind |-> "redirect", pathname |-> pathname]
PassThrough(req) == [kind |-> "next", pathname |-> req.pathname]

\* Faulty variant: only the exact protected paths are guarded.
middlewareExact(req) ==
  IF \E k \in 1..Len(PROTECTED_ROUTES) : req.pathname = PROTECTED_ROUTES[k]
    THEN IF ~req.cookie.present \/ req.cookie.value = <<>>
           THEN Redirect(Str_root)
           ELSE PassThrough(req)
    ELSE PassThrough(req)

\* middleware(request): a protected path without a (non-empty) session cookie
\* is redirected to "/"; everything else is NextResponse.next().
middleware(req) ==
  IF IsProtected(req.pathname)
    THEN IF ~req.cookie.present \/ req.cookie.value = <<>>
           THEN Redirect(Str_root)
           ELSE PassThrough(req)
    ELSE PassThrough(req)

SamplePaths ==
  {<<"/", "d", "a", "s", "h", "b", "o", "a", "r", "d", "/", "a">>,
   <<"/", "p", "r", "o", "f", "i", "l", "e", "/", "a">>,
   <<"/", "d", "a", "s", "h", "b", "o", "a", "r", "d", "s">>,
   <<"/", "D", "a", "s", "h", "b", "o", "a", "r", "d">>,
   <<"/", "a", "/", "p", "r", "o", "f", "i", "l", "e">>,
   <<"/", "a", "p", "i", "/", "p", "r", "o", "f", "i", "l", "e">>,
   <<"/", "_", "n", "e", "x", "t", "/", "s", "t", "a", "t", "i", "c", "/", "a">>,
   <<"/", "_", "n", "e", "x", "t", "/", "i", "m", "a", "g", "e">>,
   <<"/", "f", "a", "v", "i", "c", "o", "n", ".", "i", "c", "o">>,
   <<"/", "f", "a", "v", "i", "c", "o", "n", "x", "i", "c", "o">>}
Pathnames == {SubSeq(p, 1, n) : <<p, n>> \in {<<q, m>> \in SamplePaths \X (1..16) : m <= Len(q)}}
RequestCookies ==
  {NoCookie} \cup {CookieOf(v) : v \in {<<>>, <<"alice", 0>>, <<"alice", 1>>}}
MwRequests == [pathname : Pathnames, cookie : RequestCookies]
NoRequest == [pathname |-> <<>>, cookie |-> NoCookie]
NoResponse == [kind |-> "none", pathname |-> <<>>]

\* The framework hands a request to the middleware when the matcher selects
\* its path, and passes it through otherwise.
Middleware ==
  /\ mwResp = NoResponse
  /\ mwReq # NoRequest
  /\ mwResp' = IF Matcher(mwReq.pathname) THEN middleware(mwReq) ELSE PassThrough(mwReq)
  /\ UNCHANGED <<mwReq, clientVars, helperVars, serverVars>>

\* ------------------------------------------------------ specifications
InitClient ==
  /\ currentUser = NoUser
  /\ emitted = 0
  /\ mounted = [c \in Components |-> FALSE]
  /\ user = [c \in Components |-> NoUser]
  /\ loading = [c \in WithLoading |-> TRUE]
  /\ subs = [c \in Components |-> 0]
  /\ inbox = [c \in Components |-> <<>>]
  /\ delivered = [c \in Components |-> <<>>]
  /\ created = [c \in Components |-> 0]
  /\ unsubscribed = [c \in Components |-> 0]
  /\ pushes = <<>>
  /\ calls = <<>>

InitServer ==
  /\ cookie = NoCookie
  /\ expired = {}
  /\ minted = {}
  /\ posts = <<>>
  /\ authLog = <<>>
  /\ actionLog = <<>>

InitMw ==
  /\ mwReq = NoRequest
  /\ mwResp = NoResponse

\* The components and the vendor's auth-state stream.
Init ==
  /\ InitClient
  /\ InitServer
  /\ adminInScope = FALSE
  /\ InitMw

Next ==
  \/ \E u \in UserOrNull : VendorAuthChange(u)
  \/ \E c \in Components : Mount(c)
  \/ \E c \in Components : Unmount(c)
  \/ \E c \in Components : Notify(c)

Spec == Init /\ [][Next]_vars

\* The Login page with its sign-in/out handlers and the GoogleLoginButton.
NextSignIn ==
  \/ Mount("Login")
  \/ Unmount("Login")
  \/ Notify("Login")
  \/ ClickSignIn
  \/ ClickSignOut
  \/ ClickGoogleLoginButton
  \/ \E i \in 1..Len(calls) : \E r \in Users \cup AuthErrors : PopupSettles(i, r)
  \/ \E i \in 1..Len(calls) : \E r \in {"ok"} \cup SignOutErrors : SignOutSettles(i, r)
  \/ \E i \in 1..Len(calls) : \E r \in {"response"} \cup FetchErrors : FetchSettles(i, r)
  \/ \E i \in 1..Len(calls) : Resume(i)

SpecSignIn == Init /\ [][NextSignIn]_vars

\* The server actions and the session cookie.
InitSession ==
  /\ InitClient
  /\ InitServer
  /\ adminInScope \in BOOLEAN
  /\ InitMw

NextSession ==
  \/ GetAuthenticatedUserUid
  \/ \E t \in Users \cup {"bad"} : SetTokenCookieAction(t)
  \/ \E v \in ForeignValues : ClientSetsCookie(v)
  \/ \E v \in minted : SessionExpires(v)
  \/ \E t \in Titles, c \in Contents, ok \in BOOLEAN : CreatePostAction(t, c, ok)

SpecSession == InitSession /\ [][NextSession]_vars

\* The middleware on one request.
InitMiddleware ==
  /\ InitClient
  /\ InitServer
  /\ adminInScope = FALSE
  /\ mwReq \in MwRequests
  /\ mwResp = NoResponse

NextMiddleware == Middleware

SpecMiddleware == InitMiddleware /\ [][NextMiddleware]_vars

\* ------------------------------------------------------ properties
Guard == "withAuth"
Last(q) == q[Len(q)]

\* C1: while no auth-state notification has been delivered to the mounted
\* guard's listener, loading is still true, and whenever loading is true the
\* wrapped view is not rendered, whatever the props and the vendor's user.
GuardHidesViewWhileLoading ==
  /\ (mounted[Guard] /\ delivered[Guard] = <<>>) => loading[Guard]
  /\ (mounted[Guard] /\ loading[Guard]) =>
       \A p \in Props : WrapperRender(p, StateOf(Guard)).view # "WrappedComponent"

\* The vendor already has a user, the guard is mounted and not yet notified.
GuardLoadingWithVendorUser ==
  /\ mounted[Guard]
  /\ delivered[Guard] = <<>>
  /\ inbox[Guard] # <<>>
  /\ currentUser \in Users

\* C2: a step delivers a notification to the guard's listener with no user
\* exactly when it issues one router.push("/"); a notification with a user
\* issues none, and nothing else issues a redirect.
GuardRedirectsIffUserAbsent ==
  /\ [][\A u \in UserOrNull :
          delivered'[Guard] = Append(delivered[Guard], u) =>
            pushes' = IF u = NoUser THEN Append(pushes, "/") ELSE pushes]_vars
  /\ [][pushes' # pushes =>
          \E u \in UserOrNull : delivered'[Guard] = Append(delivered[Guard], u)]_vars

\* The guard was notified of a user and then of a logout: one redirect.
GuardRedirectedOnce ==
  /\ delivered[Guard] = <<"alice", NoUser>>
  /\ pushes = <<"/">>

\* C3: a handler never rejects; when it has ended its promise is resolved, it
\* logged once for every failure of a call it awaited, and it made one vendor
\* call and at most one fetch.
HandlersLogAndNeverThrow ==
  \A i \in 1..Len(calls) :
    /\ calls[i].outcome # "rejected"
    /\ calls[i].vendorCalls = 1
    /\ Len(calls[i].fetches) <= 1
    /\ calls[i].pc = "done" =>
         /\ calls[i].outcome = "resolved"
         /\ Len(calls[i].logged) = Len(calls[i].failures)

\* signInWithGoogle ended after a failed popup, handleSignIn after a failed fetch.
HandlersEndedAfterFailure ==
  /\ Len(calls) = 2
  /\ calls[1].fn = "signInWithGoogle" /\ calls[1].pc = "done"
  /\ calls[1].failures = <<"auth/popup-closed-by-user">>
  /\ calls[2].fn = "handleSignIn" /\ calls[2].pc = "done"
  /\ calls[2].failures = <<"TypeError">>

\* An entry of authLog where the verifier rejected a present cookie.
Rejected(e) == e.op # "set" /\ e.before.present /\ e.before.value # <<>> /\ ~e.valid

\* C4: after a call in which the verifier rejected the cookie the store holds
\* no "session" cookie, and the next call, with no cookie set in between,
\* fails with "Authentication required." without calling the verifier.
RejectedCookieIsDeleted ==
  \A i \in 1..Len(authLog) :
    Rejected(authLog[i]) =>
      /\ i = Len(authLog) => cookie = NoCookie
      /\ (i < Len(authLog) /\ authLog[i + 1].op # "set") =>
           /\ authLog[i + 1].before = NoCookie
           /\ ~authLog[i + 1].verified
           /\ ~authLog[i + 1].returned
           /\ authLog[i + 1].error = "Authentication required."

\* An expired minted cookie was rejected, and a further call followed.
ExpiredCookieRejectedThenChecked ==
  \E i \in 1..Len(authLog) :
    /\ Rejected(authLog[i])
    /\ authLog[i].before.value \in expired
    /\ i < Len(authLog)
    /\ authLog[i + 1].op # "set"

\* C5: the user state of a mounted Login or AuthProvider is the user of the
\* notification delivered last (null after a logout), and AuthProvider's
\* loading is true exactly until its first notification.
ListenersMirrorLatestUser ==
  /\ \A c \in {"Login", "AuthProvider"} :
       (mounted[c] /\ delivered[c] # <<>>) => user[c] = Last(delivered[c])
  /\ mounted["AuthProvider"] =>
       (loading["AuthProvider"] <=> delivered["AuthProvider"] = <<>>)

\* Login saw a login and then a logout; AuthProvider saw two users in turn.
ListenersSawLoginThenLogout ==
  /\ mounted["Login"] /\ delivered["Login"] = <<"alice", NoUser>>
  /\ mounted["AuthProvider"] /\ Len(delivered["AuthProvider"]) = 2
  /\ user["AuthProvider"] = NoUser

\* C6: no step of a sign-in/out handler (its start, the settling of the call it
\* awaits, its completion) changes a component's user or loading; Login's
\* user changes only when its listener is notified or Login is mounted; and
\* every invocation of signInWithGoogle or signOutFromGoogle has issued one
\* vendor call, a second click adding a second invocation.
HelpersLeaveUiStateAlone ==
  /\ [][calls' # calls => (user' = user /\ loading' = loading)]_vars
  /\ [][user'["Login"] # user["Login"] =>
          \/ \E u \in UserOrNull :
               delivered'["Login"] = Append(delivered["Login"], u)
          \/ (~mounted["Login"] /\ mounted'["Login"])]_vars
  /\ [](\A i \in 1..Len(calls) :
          calls[i].fn \in {"signInWithGoogle", "signOutFromGoogle"} =>
            calls[i].vendorCalls = 1)

\* The sign-in button was clicked twice; the first popup succeeded and the
\* helper ended before Login's listener was told, the second is still open.
HelperEndedBeforeNotification ==
  /\ Len(calls) = 2
  /\ calls[1].fn = "signInWithGoogle" /\ calls[1].pc = "done"
  /\ calls[1].failures = <<>>
  /\ calls[2].fn = "signInWithGoogle" /\ calls[2].pc = "awaitVendor"
  /\ mounted["Login"] /\ user["Login"] = NoUser
  /\ currentUser \in Users
  /\ inbox["Login"] # <<>>

\* C7: getAuthenticatedUserUid returns a uid only for a present cookie the
\* verifier accepts, and then the uid of its claims; otherwise it returns
\* none.  createPostAction never throws; it writes a post only after the check
\* returned, with that uid as authorUid, and on a failure of the check, of the
\* `admin` lookup or of the write it writes nothing and reports success false.
OnlyVerifiedSessionsWrite ==
  /\ \A i \in 1..Len(authLog) :
       authLog[i].op # "set" =>
         /\ authLog[i].returned <=> authLog[i].valid
         /\ authLog[i].returned =>
              /\ authLog[i].before.present
              /\ authLog[i].before.value \in minted
              /\ authLog[i].uid = authLog[i].before.value[1]
         /\ ~authLog[i].returned => authLog[i].uid = NoUid
  /\ \A k \in 1..Len(actionLog) :
       LET a == actionLog[k]
           e == authLog[a.at]
       IN /\ ~a.threw
          /\ e.op = "createPost"
          /\ a.wrote # <<>> =>
               /\ e.returned
               /\ Len(a.wrote) = 1
               /\ a.wrote[1].authorUid = e.uid
          /\ (~e.returned \/ ~adminInScope \/ ~a.addOk) =>
               (a.wrote = <<>> /\ ~a.success)
          /\ a.success <=> a.wrote # <<>>
  /\ Len(posts) = Cardinality({k \in 1..Len(actionLog) : actionLog[k].success})

\* A post was written for alice, and a later action failed on a rejected cookie.
PostWrittenThenRefused ==
  /\ Len(posts) = 1
  /\ posts[1].authorUid = "alice"
  /\ Len(actionLog) = 2
  /\ actionLog[1].success
  /\ ~actionLog[2].success
  /\ Rejected(authLog[actionLog[2].at])

\* C8: the middleware redirects a request to "/" exactly when its pathname
\* starts with /dashboard or /profile and its session cookie is missing or
\* empty; every other request passes with its pathname unchanged, whatever
\* the value of a non-empty cookie.
MiddlewareRedirectsIffNoCookie ==
  mwResp # NoResponse =>
    LET path == mwReq.pathname
        protected == \E n \in 0..Len(path) :
                       SubSeq(path, 1, n) \in {Str_dashboard, Str_profile}
        noCookie == ~mwReq.cookie.present \/ mwReq.cookie.value = <<>>
    IN /\ mwResp.kind \in {"redirect", "next"}
       /\ mwResp.kind = "redirect" <=> (protected /\ noCookie)
       /\ mwResp.kind = "redirect" => mwResp.pathname = Str_root
       /\ mwResp.kind = "next" => mwResp.pathname = path

\* A request below /dashboard with a cookie nobody minted passed.
ForgedCookiePassesMiddleware ==
  /\ mwResp.kind = "next"
  /\ Len(mwReq.pathname) > Len(Str_dashboard)
  /\ SubSeq(mwReq.pathname, 1, Len(Str_dashboard)) = Str_dashboard
  /\ mwReq.cookie = CookieOf(<<"alice", 0>>)

\* C9: the mounted guard renders the wrapped view only if the notification
\* delivered last carried a user, and injects that user.
GuardRendersOnlyLatestUser ==
  \A p \in Props :
    LET r == WrapperRender(p, StateOf(Guard))
    IN (mounted[Guard] /\ r.view = "WrappedComponent") =>
         /\ delivered[Guard] # <<>>
         /\ Last(delivered[Guard]) # NoUser
         /\ r.user = Last(delivered[Guard])

\* C10: a mounted component holds one live subscription and a torn-down one
\* none; subscriptions are created only by a mount, and each one created is
\* unsubscribed by the teardown; while a component stays torn down no
\* notification is pending for it, its state does not change and no redirect
\* is issued for the guard.
OneSubscriptionPerMountedComponent ==
  /\ [](\A c \in Components :
          /\ subs[c] = IF mounted[c] THEN 1 ELSE 0
          /\ created[c] = unsubscribed[c] + subs[c]
          /\ ~mounted[c] => inbox[c] = <<>>)
  /\ [][\A c \in Components :
          /\ created'[c] # created[c] => (~mounted[c] /\ mounted'[c])
          /\ unsubscribed'[c] # unsubscribed[c] => (mounted[c] /\ ~mounted'[c])
          /\ (~mounted[c] /\ ~mounted'[c]) =>
               /\ user'[c] = user[c]
               /\ delivered'[c] = delivered[c]
               /\ c \in WithLoading => loading'[c] = loading[c]]_vars
  /\ [][(~mounted[Guard] /\ ~mounted'[Guard]) => pushes' = pushes]_vars

\* The guard was torn down after its first notification, and the vendor has
\* emitted every later change without reaching it.
GuardTornDownThenVendorChanged ==
  /\ ~mounted[Guard]
  /\ created[Guard] = 1 /\ unsubscribed[Guard] = 1
  /\ delivered[Guard] = <<NoUser>>
  /\ emitted = MaxEvents
  /\ currentUser \in Users

\* The part of C11 about when and what handleSignIn posts: at most one POST
\* per click, only after the popup of that click returned a user, with that
\* user's uid, email, name and photo URL; none after a failed popup, and no
\* second POST or vendor call after a failed one.
HandleSignInPostsOnceAfterSignIn ==
  \A i \in 1..Len(calls) :
    calls[i].fn = "handleSignIn" =>
      /\ Len(calls[i].fetches) <= 1
      /\ calls[i].vendorCalls = 1
      /\ calls[i].fetches # <<>> =>
           /\ calls[i].popupUser \in Users
           /\ calls[i].fetches[1] =
                [uid |-> calls[i].popupUser,
                 email |-> <<calls[i].popupUser, "email">>,
                 name |-> <<calls[i].popupUser, "name">>,
                 photoURL |-> <<calls[i].popupUser, "photo">>]
      /\ calls[i].popupUser = NoUser => calls[i].fetches = <<>>
      /\ (calls[i].pc = "done" /\ "TypeError" \in {calls[i].failures[k] :
                                    k \in 1..Len(calls[i].failures)}) =>
           /\ Len(calls[i].fetches) = 1
           /\ calls[i].logged # <<>>

\* C11: handleSignIn posts to /api/syncUser at most once per click, only after
\* the popup of that click returned a user and with that user's uid, email,
\* name and photo URL, and not at all after a failed popup; a failed POST is
\* logged, not retried, leaves the sign-in alone, and raises no alert telling
\* the user that authentication failed.
HandleSignInPostIsBestEffort ==
  /\ HandleSignInPostsOnceAfterSignIn
  /\ \A i \in 1..Len(calls) :
       (/\ calls[i].fn = "handleSignIn"
        /\ calls[i].pc = "done"
        /\ calls[i].failures = <<"TypeError">>) =>
         calls[i].alerts = <<>>

====
